---------------------------- MODULE Spec2Model ----------------------------
(***************************************************************************)
(* Innovation Screener: the evaluation pipeline of server/evaluator.js     *)
(* (src/unnamed/part_001) behind the POST /api/evaluate handler of         *)
(* src/server/index.js.                                                    *)
(*                                                                         *)
(* A JavaScript string is a sequence of tokens.  A token is one character  *)
(* (a brace, a backtick, a dollar sign) or a run of characters that no     *)
(* operation of the program ever splits (a word of a message, a key).      *)
(* A JavaScript value is a record [t |-> type, v |-> payload]; an object   *)
(* is the sequence of its <<key, value>> pairs in insertion order.         *)
(***************************************************************************)
EXTENDS Integers, Sequences, FiniteSets, TLC

(***************************************************************************)
(* Characters                                                              *)
(***************************************************************************)
\* The backtick (U+0060), which a TLA+ string cannot hold, and the no-break
\* space (U+00A0) are written as named tokens.
BT == "backtick"
LB == "{"
RB == "}"
QT == "\""
BS == "\\"
NL == "\n"
SP == " "
NBSP == "nbsp"
COLON == ":"
COMMA == ","
DOLLAR == "$"

Digits == <<"0", "1", "2", "3", "4", "5", "6", "7", "8", "9">>

IsDigit(c) == \E k \in 1..10 : Digits[k] = c

DigitVal(c) == (CHOOSE k \in 1..10 : Digits[k] = c) - 1

\* ECMAScript WhiteSpace and LineTerminator: what String.prototype.trim strips
\* and what \s matches in a regular expression.
IsRegexSpace(c) == c \in {SP, NL, "\t", "\r", NBSP}

\* JSON whitespace: space, tab, line feed, carriage return only.
IsJsonSpace(c) == c \in {SP, NL, "\t", "\r"}

\* Characters JSON forbids unescaped inside a string (U+0000..U+001F).
IsControl(c) == c \in {NL, "\t", "\r"}

Min(S) == CHOOSE x \in S : \A y \in S : x <= y

Max(S) == CHOOSE x \in S : \A y \in S : x >= y

\* Does sequence w occur in s starting at position i?
OccursAt(s, w, i) ==
    /\ i >= 1
    /\ i + Len(w) - 1 <= Len(s)
    /\ \A k \in 1..Len(w) : s[i + k - 1] = w[k]

Occurrences(s, w) == {i \in 1..Len(s) : OccursAt(s, w, i)}

Contains(s, w) == Occurrences(s, w) # {}

(***************************************************************************)
(* JavaScript values                                                       *)
(***************************************************************************)
Undefined == [t |-> "undefined", v |-> <<>>]
Null == [t |-> "null", v |-> <<>>]
JBool(b) == [t |-> "bool", v |-> b]
JNum(n) == [t |-> "num", v |-> n]
JStr(s) == [t |-> "str", v |-> s]
JArr(items) == [t |-> "arr", v |-> items]
JObj(pairs) == [t |-> "obj", v |-> pairs]

\* An Error instance: only its message is ever read.
JError(name, message) == [t |-> "error", v |-> <<name, message>>]

ErrorMessage(e) == e.v[2]

\* ToBoolean
Truthy(x) ==
    CASE x.t = "undefined" -> FALSE
      [] x.t = "null" -> FALSE
      [] x.t = "bool" -> x.v
      [] x.t = "num" -> x.v # 0
      [] x.t = "str" -> x.v # <<>>
      [] OTHER -> TRUE

HasKey(pairs, key) == \E k \in 1..Len(pairs) : pairs[k][1] = key

\* Property read x[key] on a value that is not null or undefined; a key is a
\* string, a sequence of tokens.
Get(x, key) ==
    IF x.t = "obj" /\ HasKey(x.v, key)
    THEN x.v[CHOOSE k \in 1..Len(x.v) : x.v[k][1] = key][2]
    ELSE Undefined

\* Element read x[0].
First(x) ==
    IF x.t = "arr" /\ Len(x.v) > 0 THEN x.v[1] ELSE Undefined

\* Property write: an existing key keeps its place, a new key is appended.
Put(pairs, key, val) ==
    IF HasKey(pairs, key)
    THEN [k \in 1..Len(pairs) |->
            IF pairs[k][1] = key THEN <<key, val>> ELSE pairs[k]]
    ELSE Append(pairs, <<key, val>>)

(***************************************************************************)
(* JSON.parse and JSON.stringify (ECMA-404 over the model's characters:    *)
(* objects, arrays, strings with the escapes \" \\ \/ \n \t \r, integers,  *)
(* true, false, null; fractions, exponents and \u escapes are not in the   *)
(* alphabet of any text the model builds).                                 *)
(***************************************************************************)
PFail == [ok |-> FALSE, v |-> Undefined, i |-> 0]

POk(val, next) == [ok |-> TRUE, v |-> val, i |-> next]

RECURSIVE SkipJsonSpace(_, _)
SkipJsonSpace(s, i) ==
    IF i <= Len(s) /\ IsJsonSpace(s[i]) THEN SkipJsonSpace(s, i + 1) ELSE i

Unescape(c) ==
    CASE c = "n" -> NL
      [] c = "t" -> "\t"
      [] c = "r" -> "\r"
      [] OTHER -> c

\* The characters of a string literal after its opening quote, from position
\* i, collected into acc up to the closing quote.
RECURSIVE ScanString(_, _, _)
ScanString(s, i, acc) ==
    IF i > Len(s) THEN PFail
    ELSE IF s[i] = QT THEN POk(acc, i + 1)
    ELSE IF s[i] = BS
         THEN IF i + 1 <= Len(s) /\ s[i + 1] \in {QT, BS, "/", "n", "t", "r"}
              THEN ScanString(s, i + 2, Append(acc, Unescape(s[i + 1])))
              ELSE PFail
    ELSE IF IsControl(s[i]) THEN PFail
    ELSE ScanString(s, i + 1, Append(acc, s[i]))

RECURSIVE ScanDigits(_, _, _)
ScanDigits(s, i, acc) ==
    IF i <= Len(s) /\ IsDigit(s[i])
    THEN ScanDigits(s, i + 1, 10 * acc + DigitVal(s[i]))
    ELSE POk(acc, i)

\* int = "0" | digit1-9 digit*, with an optional leading minus.
ParseNumber(s, i) ==
    LET neg == s[i] = "-"
        j == IF neg THEN i + 1 ELSE i
    IN  IF j > Len(s) \/ ~IsDigit(s[j]) THEN PFail
        ELSE IF s[j] = "0" THEN POk(JNum(0), j + 1)
        ELSE LET d == ScanDigits(s, j, 0)
             IN  POk(JNum(IF neg THEN 0 - d.v ELSE d.v), d.i)

ParseLiteral(s, i) ==
    IF OccursAt(s, <<"t", "r", "u", "e">>, i) THEN POk(JBool(TRUE), i + 4)
    ELSE IF OccursAt(s, <<"f", "a", "l", "s", "e">>, i)
         THEN POk(JBool(FALSE), i + 5)
    ELSE IF OccursAt(s, <<"n", "u", "l", "l">>, i) THEN POk(Null, i + 4)
    ELSE PFail

RECURSIVE ParseValue(_, _)
RECURSIVE ParseMembers(_, _, _)
RECURSIVE ParseElements(_, _, _)

\* member (, member)* } from position i, the members so far in acc.
ParseMembers(s, i, acc) ==
    LET j == SkipJsonSpace(s, i)
    IN  IF j > Len(s) \/ s[j] # QT THEN PFail
        ELSE
        LET key == ScanString(s, j + 1, <<>>)
        IN  IF ~key.ok THEN PFail
            ELSE
            LET k == SkipJsonSpace(s, key.i)
            IN  IF k > Len(s) \/ s[k] # COLON THEN PFail
                ELSE
                LET val == ParseValue(s, k + 1)
                IN  IF ~val.ok THEN PFail
                    ELSE
                    LET m == SkipJsonSpace(s, val.i)
                        now == Put(acc, key.v, val.v)
                    IN  IF m > Len(s) THEN PFail
                        ELSE IF s[m] = COMMA THEN ParseMembers(s, m + 1, now)
                        ELSE IF s[m] = RB THEN POk(JObj(now), m + 1)
                        ELSE PFail

\* value (, value)* ] from position i, the elements so far in acc.
ParseElements(s, i, acc) ==
    LET val == ParseValue(s, i)
    IN  IF ~val.ok THEN PFail
        ELSE
        LET m == SkipJsonSpace(s, val.i)
            now == Append(acc, val.v)
        IN  IF m > Len(s) THEN PFail
            ELSE IF s[m] = COMMA THEN ParseElements(s, m + 1, now)
            ELSE IF s[m] = "]" THEN POk(JArr(now), m + 1)
            ELSE PFail

ParseValue(s, i) ==
    LET j == SkipJsonSpace(s, i)
    IN  IF j > Len(s) THEN PFail
        ELSE IF s[j] = LB
             THEN LET k == SkipJsonSpace(s, j + 1)
                  IN  IF k <= Len(s) /\ s[k] = RB THEN POk(JObj(<<>>), k + 1)
                      ELSE ParseMembers(s, k, <<>>)
        ELSE IF s[j] = "["
             THEN LET k == SkipJsonSpace(s, j + 1)
                  IN  IF k <= Len(s) /\ s[k] = "]" THEN POk(JArr(<<>>), k + 1)
                      ELSE ParseElements(s, k, <<>>)
        ELSE IF s[j] = QT
             THEN LET str == ScanString(s, j + 1, <<>>)
                  IN  IF str.ok THEN POk(JStr(str.v), str.i) ELSE PFail
        ELSE IF s[j] = "-" \/ IsDigit(s[j]) THEN ParseNumber(s, j)
        ELSE ParseLiteral(s, j)

SyntaxError == JError("SyntaxError", <<"Unexpected token in JSON">>)

\* JSON.parse(text): the value, or the SyntaxError it throws.
JSONparse(text) ==
    LET r == ParseValue(text, 1)
    IN  IF r.ok /\ SkipJsonSpace(text, r.i) > Len(text) THEN r.v
        ELSE SyntaxError

IsThrown(x) == x.t = "error"

RECURSIVE DigitsOf(_)
DigitsOf(n) ==
    IF n < 10 THEN <<Digits[n + 1]>>
    ELSE Append(DigitsOf(n \div 10), Digits[(n % 10) + 1])

Escape(c) ==
    CASE c = QT -> <<BS, QT>>
      [] c = BS -> <<BS, BS>>
      [] c = NL -> <<BS, "n">>
      [] c = "\t" -> <<BS, "t">>
      [] c = "\r" -> <<BS, "r">>
      [] OTHER -> <<c>>

RECURSIVE QuoteBody(_)
QuoteBody(s) ==
    IF s = <<>> THEN <<>> ELSE Escape(Head(s)) \o QuoteBody(Tail(s))

Quote(s) == <<QT>> \o QuoteBody(s) \o <<QT>>

RECURSIVE JSONstringify(_)
RECURSIVE StringifyMembers(_)
RECURSIVE StringifyElements(_)

\* Members whose value is undefined are left out.
StringifyMembers(pairs) ==
    IF pairs = <<>> THEN <<>>
    ELSE LET rest == StringifyMembers(Tail(pairs))
             p == Head(pairs)
         IN  IF p[2].t = "undefined" THEN rest
             ELSE Quote(p[1]) \o <<COLON>> \o JSONstringify(p[2])
                    \o (IF rest = <<>> THEN <<>> ELSE <<COMMA>> \o rest)

\* An undefined element is written as null.
StringifyElements(items) ==
    IF items = <<>> THEN <<>>
    ELSE (IF Head(items).t = "undefined" THEN <<"n", "u", "l", "l">>
          ELSE JSONstringify(Head(items)))
           \o (IF Len(items) = 1 THEN <<>>
               ELSE <<COMMA>> \o StringifyElements(Tail(items)))

JSONstringify(x) ==
    CASE x.t = "obj" -> <<LB>> \o StringifyMembers(x.v) \o <<RB>>
      [] x.t = "arr" -> <<"[">> \o StringifyElements(x.v) \o <<"]">>
      [] x.t = "str" -> Quote(x.v)
      [] x.t = "num" ->
           IF x.v < 0 THEN <<"-">> \o DigitsOf(0 - x.v) ELSE DigitsOf(x.v)
      [] x.t = "bool" ->
           IF x.v THEN <<"t", "r", "u", "e">> ELSE <<"f", "a", "l", "s", "e">>
      [] x.t = "null" -> <<"n", "u", "l", "l">>
      [] OTHER -> <<>>

(***************************************************************************)
(* String.prototype.trim and String.prototype.replace(string, string)      *)
(***************************************************************************)
RECURSIVE TrimStart(_)
TrimStart(s) ==
    IF s # <<>> /\ IsRegexSpace(Head(s)) THEN TrimStart(Tail(s)) ELSE s

RECURSIVE TrimEnd(_)
TrimEnd(s) ==
    IF s # <<>> /\ IsRegexSpace(s[Len(s)])
    THEN TrimEnd(SubSeq(s, 1, Len(s) - 1))
    ELSE s

Trim(s) == TrimEnd(TrimStart(s))

\* GetSubstitution for a string pattern (no capture groups): in the
\* replacement text $$ is a dollar sign, $& the matched text, $ and a backtick
\* the text before the match, $' the text after it; any other character, a $ before
\* anything else included, stands for itself.
RECURSIVE GetSubstitution(_, _, _, _)
GetSubstitution(matched, before, after, replacement) ==
    IF replacement = <<>> THEN <<>>
    ELSE IF Head(replacement) = DOLLAR /\ Len(replacement) >= 2
              /\ replacement[2] \in {DOLLAR, "&", BT, "'"}
         THEN (CASE replacement[2] = DOLLAR -> <<DOLLAR>>
                 [] replacement[2] = "&" -> matched
                 [] replacement[2] = BT -> before
                 [] replacement[2] = "'" -> after)
                \o GetSubstitution(matched, before, after,
                                   SubSeq(replacement, 3, Len(replacement)))
    ELSE <<Head(replacement)>>
           \o GetSubstitution(matched, before, after, Tail(replacement))

\* s.replace(search, replacement): the first occurrence only.
Replace(s, search, replacement) ==
    IF ~Contains(s, search) THEN s
    ELSE LET p == Min(Occurrences(s, search))
             before == SubSeq(s, 1, p - 1)
             after == SubSeq(s, p + Len(search), Len(s))
         IN  before \o GetSubstitution(search, before, after, replacement)
               \o after

(***************************************************************************)
(* The two regular expressions of the extractor                            *)
(***************************************************************************)
NoMatch == [matched |-> FALSE, text |-> <<>>]

Matched(text) == [matched |-> TRUE, text |-> text]

RECURSIVE SkipRegexSpace(_, _)
SkipRegexSpace(s, i) ==
    IF i <= Len(s) /\ IsRegexSpace(s[i]) THEN SkipRegexSpace(s, i + 1) ELSE i

Fence == <<BT, BT, BT>>

JsonTag == <<"j", "s", "o", "n">>

\* \s*FENCE at position i
ClosesAt(s, i) == OccursAt(s, Fence, SkipRegexSpace(s, i))

\* The positions after FENCE(?:json)? for a fence at i, in the order the
\* matcher tries them: with the tag first.
AfterTag(s, i) ==
    (IF OccursAt(s, JsonTag, i + 3) THEN <<i + 7>> ELSE <<>>) \o <<i + 3>>

\* The same pattern with a lazy quantifier: the shortest capture.
CaptureLazy(s, a) ==
    LET p == SkipRegexSpace(s, a)
        ends == {q \in (p + 1)..Len(s) : s[q] = RB /\ ClosesAt(s, q + 1)}
    IN  IF p <= Len(s) /\ s[p] = LB /\ ends # {}
        THEN Matched(SubSeq(s, p, Min(ends)))
        ELSE NoMatch

\* \s*(\{[\s\S]*\})\s*FENCE from position a: group 1, which the greedy
\* quantifier makes the longest one.
Capture(s, a) ==
    LET p == SkipRegexSpace(s, a)
        ends == {q \in (p + 1)..Len(s) : s[q] = RB /\ ClosesAt(s, q + 1)}
    IN  IF p <= Len(s) /\ s[p] = LB /\ ends # {}
        THEN Matched(SubSeq(s, p, Max(ends)))
        ELSE NoMatch

\* The match of the pattern anchored at the fence at i.
FenceAt(s, i) ==
    LET tries == AfterTag(s, i)
        hits == {k \in 1..Len(tries) : Capture(s, tries[k]).matched}
    IN  IF hits = {} THEN NoMatch ELSE Capture(s, tries[Min(hits)])

\* content.match(/FENCE(?:json)?\s*(\{[\s\S]*\})\s*FENCE/), FENCE three
\* backticks: group 1 of the leftmost match.
FencedMatch(content) ==
    LET starts == {i \in Occurrences(content, Fence) :
                      FenceAt(content, i).matched}
    IN  IF starts = {} THEN NoMatch ELSE FenceAt(content, Min(starts))

\* The same pattern with a lazy quantifier: from the first { to the first }
\* after it.
ObjMatchLazy(content) ==
    LET opens == {i \in 1..Len(content) : content[i] = LB}
        closes == {i \in 1..Len(content) :
                      content[i] = RB /\ opens # {} /\ i > Min(opens)}
    IN  IF opens # {} /\ closes # {}
        THEN Matched(SubSeq(content, Min(opens), Min(closes)))
        ELSE NoMatch

\* content.match(/\{[\s\S]*\}/): from the first { to the last }.
ObjMatch(content) ==
    LET opens == {i \in 1..Len(content) : content[i] = LB}
        closes == {i \in 1..Len(content) : content[i] = RB}
    IN  IF opens # {} /\ closes # {} /\ Max(closes) > Min(opens)
        THEN Matched(SubSeq(content, Min(opens), Max(closes)))
        ELSE NoMatch

(***************************************************************************)
(* server/evaluator.js                                                     *)
(***************************************************************************)
Placeholder == <<"{ideaDescription}">>

\* The template, abridged: its text before the placeholder, the placeholder
\* (its only occurrence), and its text after it, which ends with the JSON
\* structure the model is asked to fill in.
PromptHead == <<"You are an innovation evaluation expert at BMW.",
                "INNOVATION CONCEPT:", NL>>

PromptTail == <<NL, NL, "Evaluate this concept across the following dimensions:",
                "Return ONLY valid JSON in this exact structure", NL,
                LB, QT, "competitors", QT, COLON, LB, RB, RB>>

EVALUATION_PROMPT == PromptHead \o Placeholder \o PromptTail

SystemMessage == <<"You are a critical innovation evaluation expert at BMW.">>

DefaultModel == <<"meta-llama/Llama-3.1-8B-Instruct">>

DefaultBaseUrl == <<"https://router.huggingface.co">>

MaxTokens == 2500

KeyRequired ==
    JError("Error", <<"Hugging Face API key is required. ",
                      "Please set HUGGINGFACE_API_KEY in your .env file.">>)

\* The key as it is, checked by nobody.
getTokenUnchecked(environment) == environment.HUGGINGFACE_API_KEY

\* getHuggingFaceToken(): the key, or the Error it throws.
getHuggingFaceToken(environment) ==
    LET apiKey == environment.HUGGINGFACE_API_KEY
    IN  IF ~Truthy(apiKey) THEN KeyRequired ELSE apiKey

\* x || fallback
OrElse(x, fallback) == IF Truthy(x) THEN x ELSE fallback

\* EVALUATION_PROMPT.replace('{ideaDescription}', ideaDescription)
BuildPrompt(ideaDescription) ==
    Replace(EVALUATION_PROMPT, Placeholder, ideaDescription)

\* The argument of fetch: the URL, the headers and the body that is sent.
FetchRequest(environment, hfToken, prompt) ==
    [url |-> OrElse(environment.HUGGINGFACE_API_BASE, JStr(DefaultBaseUrl)).v
                \o <<"/v1/chat/completions">>,
     method |-> "POST",
     authorization |-> <<"Bearer ">> \o hfToken.v,
     model |-> OrElse(environment.HUGGINGFACE_MODEL, JStr(DefaultModel)).v,
     messages |-> <<[role |-> "system", content |-> SystemMessage],
                    [role |-> "user", content |-> prompt]>>,
     temperature |-> "0.8",
     max_tokens |-> MaxTokens,
     stream |-> FALSE]

\* response.ok
Ok(status) == status >= 200 /\ status <= 299

\* The error that leaves the status out.
RouterErrorNoStatus(status, errorText) ==
    JError("Error", <<"Hugging Face Router error: ">> \o errorText)

RouterError(status, errorText) ==
    JError("Error", <<"Hugging Face Router error ", ToString(status), ": ">>
                      \o errorText)

\* x?.[0] and x?.key
OptFirst(x) == IF x.t \in {"undefined", "null"} THEN Undefined ELSE First(x)

OptGet(x, key) ==
    IF x.t \in {"undefined", "null"} THEN Undefined ELSE Get(x, key)

NotAnObject ==
    JError("TypeError", <<"Cannot read properties of null (reading 'choices')">>)

NotAFunction == JError("TypeError", <<"content.match is not a function">>)

\* data.choices?.[0]?.message?.content || '': the content, or the TypeError
\* that reading a property of null or undefined throws.
ContentOf(data) ==
    IF data.t \in {"undefined", "null"} THEN NotAnObject
    ELSE OrElse(OptGet(OptGet(OptFirst(Get(data, <<"choices">>)), <<"message">>),
                       <<"content">>),
                JStr(<<>>))

\* The extractor with its two patterns tried in the other order.
ExtractJsonBraceFirst(content) ==
    LET objMatch == ObjMatch(content)
    IN  IF objMatch.matched THEN objMatch.text
        ELSE LET fenced == FencedMatch(content)
             IN  IF fenced.matched THEN fenced.text ELSE content

\* The extractor without its second pattern.
ExtractJsonFenceOnly(content) ==
    LET fenced == FencedMatch(content)
    IN  IF fenced.matched THEN fenced.text ELSE content

\* jsonContent: the fenced capture, else the brace-to-brace span, else the
\* content itself.
ExtractJson(content) ==
    LET fenced == FencedMatch(content)
    IN  IF fenced.matched THEN fenced.text
        ELSE LET objMatch == ObjMatch(content)
             IN  IF objMatch.matched THEN objMatch.text ELSE content

Resolved(value) == [settled |-> "resolved", value |-> value]

Rejected(error) == [settled |-> "rejected", value |-> error]

Failure(message) ==
    JObj(<< <<<<"error">>, JStr(<<"Failed to generate evaluation">>)>>,
            <<<<"message">>, JStr(message)>>,
            <<<<"fallback">>, JBool(TRUE)>> >>)

\* A catch block that lets the error go on to the caller.
CatchRethrow(error) == Rejected(error)

\* The catch block of evaluateInnovation: the promise resolves to the
\* failure object.
Catch(error) == Resolved(Failure(ErrorMessage(error)))

\* A start that hands the request to fetch a second time.
EvaluateStartTwice(environment, ideaDescription) ==
    LET hfToken == getHuggingFaceToken(environment)
        built == BuildPrompt(ideaDescription.v)
        sent == FetchRequest(environment, hfToken, built)
    IN  IF IsThrown(hfToken)
        THEN [thrown |-> <<hfToken>>, prompt |-> <<>>, fetch |-> <<>>,
              promise |-> <<Catch(hfToken)>>]
        ELSE [thrown |-> <<>>, prompt |-> <<built>>, fetch |-> <<sent, sent>>,
              promise |-> <<>>]

\* evaluateInnovation up to its first await: the token is read, the prompt
\* built and the request handed to fetch; a missing key is caught at once.
EvaluateStart(environment, ideaDescription) ==
    LET hfToken == getHuggingFaceToken(environment)
        built == BuildPrompt(ideaDescription.v)
    IN  IF IsThrown(hfToken)
        THEN [thrown |-> <<hfToken>>, prompt |-> <<>>, fetch |-> <<>>,
              promise |-> <<Catch(hfToken)>>]
        ELSE [thrown |-> <<>>, prompt |-> <<built>>,
              fetch |-> <<FetchRequest(environment, hfToken, built)>>,
              promise |-> <<>>]

\* evaluateInnovation from "const content = ..." to its return, for the
\* data that response.json() gave.
EvaluateData(data) ==
    LET content == ContentOf(data)
    IN  IF IsThrown(content)
        THEN [content |-> <<>>, parsed |-> <<>>, thrown |-> <<content>>,
              promise |-> <<Catch(content)>>]
        ELSE IF content.t # "str"
        THEN [content |-> <<content>>, parsed |-> <<>>,
              thrown |-> <<NotAFunction>>, promise |-> <<Catch(NotAFunction)>>]
        ELSE LET jsonContent == ExtractJson(content.v)
                 value == JSONparse(jsonContent)
             IN  IF IsThrown(value)
                 THEN [content |-> <<content>>, parsed |-> <<jsonContent>>,
                       thrown |-> <<value>>, promise |-> <<Catch(value)>>]
                 ELSE [content |-> <<content>>, parsed |-> <<jsonContent>>,
                       thrown |-> <<>>, promise |-> <<Resolved(value)>>]

(***************************************************************************)
(* server/index.js: the POST /api/evaluate handler                         *)
(***************************************************************************)
HttpResponse(status, body) == [status |-> status, body |-> JSONstringify(body)]

BadRequest ==
    HttpResponse(400, JObj(<< <<<<"error">>,
                               JStr(<<"Idea description is required">>)>> >>))

ServerError(error) ==
    HttpResponse(500,
        JObj(<< <<<<"error">>,
                  JStr(<<"Failed to evaluate innovation concept">>)>>,
                <<<<"details">>, JStr(ErrorMessage(error))>> >>))

TrimNotAFunction ==
    JError("TypeError", <<"ideaDescription.trim is not a function">>)

\* The validation that forgets to trim.
ValidateNoTrim(ideaDescription) ==
    IF ~Truthy(ideaDescription) THEN "refuse"
    ELSE IF ideaDescription.t # "str" THEN "throw"
    ELSE "accept"

\* if (!ideaDescription || ideaDescription.trim().length === 0): the input
\* is refused, or trim is no method of it and the call throws, or the input
\* is accepted.
Validate(ideaDescription) ==
    IF ~Truthy(ideaDescription) THEN "refuse"
    ELSE IF ideaDescription.t # "str" THEN "throw"
    ELSE IF Len(Trim(ideaDescription.v)) = 0 THEN "refuse"
    ELSE "accept"

\* A handler that wraps the evaluation in an envelope of its own.
ReplyEnvelope(promise) ==
    IF promise.settled = "resolved"
    THEN HttpResponse(200, JObj(<< <<<<"success">>, JBool(TRUE)>>,
                                   <<<<"evaluation">>, promise.value>> >>))
    ELSE ServerError(promise.value)

\* The handler after "await evaluateInnovation(...)": res.json(evaluation),
\* or its catch block when the awaited promise rejected.
Reply(promise) ==
    IF promise.settled = "resolved"
    THEN HttpResponse(200, promise.value)
    ELSE ServerError(promise.value)

(***************************************************************************)
(* client: App.jsx, EvaluationForm, EvaluationResults                      *)
(***************************************************************************)
\* A submit button that stays enabled while a request is pending.
CanSubmitWhileLoading(loading, ideaDescription) ==
    Truthy(JStr(Trim(ideaDescription)))

\* The submit button is enabled, and handleSubmit calls onSubmit.
CanSubmit(loading, ideaDescription) ==
    /\ ~(loading \/ ~Truthy(JStr(Trim(ideaDescription))))
    /\ Truthy(JStr(Trim(ideaDescription)))

\* The body of the POST that handleEvaluate sends for what handleSubmit
\* passed to it.
PostBody(ideaDescription) ==
    JSONstringify(JObj(<< <<<<"ideaDescription">>,
                            JStr(Trim(ideaDescription))>> >>))

HttpError(status) ==
    JError("Error", <<"HTTP error! status: ", ToString(status)>>)

FailedToFetch == JError("TypeError", <<"Failed to fetch">>)

\* setError(err.message || 'Failed to evaluate innovation concept')
ErrorText(err) ==
    OrElse(JStr(ErrorMessage(err)),
           JStr(<<"Failed to evaluate innovation concept">>))

\* What App renders: the form, with the error when there is one, while
\* evaluation is falsy; else EvaluationResults, which shows the error state
\* when evaluation.error is truthy and the breakdown otherwise.
View(evaluation, error) ==
    IF ~Truthy(evaluation)
    THEN [screen |-> "form",
          message |-> IF Truthy(error) THEN <<error>> ELSE <<>>]
    ELSE IF Truthy(Get(evaluation, <<"error">>))
    THEN [screen |-> "error-state",
          message |-> <<OrElse(Get(evaluation, <<"message">>),
                               Get(evaluation, <<"error">>))>>]
    ELSE [screen |-> "breakdown", message |-> <<>>]

(***************************************************************************)
(* Inputs                                                                  *)
(***************************************************************************)
MaxIdeaLen == 2
MaxProseLen == 1
MaxPlainLen == 2
MaxFieldLen == 1

SeqsUpTo(S, n) == UNION {[1..k -> S] : k \in 0..n}

Requests == {"r1"}

\* process.env as dotenv leaves it: the key missing, empty or set.
Environments ==
    {[HUGGINGFACE_API_KEY |-> k, HUGGINGFACE_MODEL |-> Undefined,
      HUGGINGFACE_API_BASE |-> Undefined] :
        k \in {Undefined, JStr(<<>>), JStr(<<"hf_token">>)}}

Body(ideaDescription) == JObj(<< <<<<"ideaDescription">>, ideaDescription>> >>)

IdeaAlphabet == {"a", SP, DOLLAR, "&", "'", BT, "{ideaDescription}"}

\* Request bodies as express.json() parses them: ideaDescription missing, of
\* another type than string, blank, or a text.
RichBodies ==
    {JObj(<<>>)}
      \cup {Body(v) : v \in {Null, JNum(0), JNum(5), JBool(TRUE), JArr(<<>>),
                             JStr(<<NBSP>>), JStr(<<NL, SP>>)}}
      \cup {Body(JStr(s)) : s \in SeqsUpTo(IdeaAlphabet, MaxIdeaLen)}

Umbrellas == <<"A subscription service for renting umbrellas in rainy cities.">>

FewBodies == {Body(JStr(Umbrellas)), Body(JStr(<<SP>>)), Body(JNum(5))}

Statuses == {200, 404, 503}

ErrorBodies == {<<>>, <<"Service Unavailable">>, <<LB, RB>>}

\* An OpenAI-style chat completion holding content.
Completion(content) ==
    JObj(<< <<<<"choices">>,
              JArr(<<JObj(<< <<<<"message">>,
                               JObj(<< <<<<"role">>, JStr(<<"assistant">>)>>,
                                       <<<<"content">>, content>> >>)>> >>)>>)>> >>)

\* A result of the declared shape, its scores and texts drawn from the
\* arguments.
EvaluationResult(score, text) ==
    JObj(<<
      <<<<"competitors">>,
        JObj(<< <<<<"existingSolutions">>, JStr(text)>>,
                <<<<"differentiation">>, JStr(<<"none">>)>> >>)>>,
      <<<<"bmwAlignment">>,
        JObj(<< <<<<"strategyFit">>, JStr(<<"fit">>)>>,
                <<<<"brandFit">>, JStr(<<"fit">>)>>,
                <<<<"corporateValues">>, JStr(<<"fit">>)>> >>)>>,
      <<<<"desirability">>,
        JObj(<< <<<<"score">>, JNum(score)>>,
                <<<<"justification">>, JStr(text)>>,
                <<<<"marketNeed">>, JStr(<<"need">>)>>,
                <<<<"customerAppeal">>, JStr(<<"appeal">>)>> >>)>>,
      <<<<"feasibility">>,
        JObj(<< <<<<"score">>, JNum(score)>>,
                <<<<"justification">>, JStr(<<"proven">>)>>,
                <<<<"technicalComplexity">>, JStr(<<"low">>)>>,
                <<<<"resourceRequirements">>, JStr(<<"low">>)>>,
                <<<<"regulatoryChallenges">>, JStr(<<"low">>)>> >>)>>,
      <<<<"viability">>,
        JObj(<< <<<<"score">>, JNum(score)>>,
                <<<<"justification">>, JStr(<<"sound">>)>>,
                <<<<"marketPotential">>, JStr(<<"large">>)>>,
                <<<<"costStructure">>, JStr(<<"lean">>)>>,
                <<<<"competitivePositioning">>, JStr(<<"strong">>)>> >>)>>,
      <<<<"overallEvaluation">>,
        JObj(<< <<<<"overallScore">>, JNum(score)>>,
                <<<<"strengths">>, JArr(<<JStr(text)>>)>>,
                <<<<"weaknesses">>, JArr(<<>>)>>,
                <<<<"risks">>, JArr(<<JStr(<<"risk">>)>>)>>,
                <<<<"recommendation">>, JStr(<<"Moderate">>)>> >>)>>,
      <<<<"improvements">>, JArr(<<JStr(text), JStr(<<"more">>)>>)>> >>)

FieldAlphabet == {"a", LB, RB, BT, QT, BS, NL}

\* Texts of a field: the short ones, and two in which a brace meets a fence.
FieldTexts ==
    SeqsUpTo(FieldAlphabet, MaxFieldLen)
      \cup {<<RB, BT, BT, BT>>, <<BT, BT, BT, LB, "a">>}

EvaluationResults ==
    {EvaluationResult(score, text) : score \in {1, 10}, text \in FieldTexts}

\* The text a model emits for a result: the JSON in a fence tagged json.
Fenced(tag, before, json, after) ==
    Fence \o tag \o before \o json \o after \o Fence

\* Each result with the text that wraps its JSON in a fence.
RoundTrips ==
    {<<Fenced(JsonTag, <<NL>>, JSONstringify(r), <<NL>>), r>> :
        r \in EvaluationResults}

RoundTripTexts == {pair[1] : pair \in RoundTrips}

SmallObjects ==
    {JObj(<<>>),
     JObj(<< <<<<"a">>, JNum(7)>> >>),
     JObj(<< <<<<"a">>, JStr(<<RB>>)>> >>)}

\* What stands where the object should: an object's JSON, or text in braces
\* that is no JSON.
SmallBodies ==
    {JSONstringify(o) : o \in SmallObjects} \cup {<<LB, "a", RB>>}

ProseAlphabet == {"a", LB, RB, BT}

Prose == SeqsUpTo(ProseAlphabet, MaxProseLen)

FencedTexts ==
    {pre \o Fenced(tag, ws[1], body, ws[2]) \o post :
        pre \in Prose, post \in Prose, tag \in {<<>>, JsonTag},
        ws \in {<< <<>>, <<>> >>, << <<NL>>, <<NL>> >>, << <<NBSP>>, <<SP>> >>},
        body \in SmallBodies}

UnfencedTexts ==
    {pre \o body \o post : pre \in Prose, post \in Prose, body \in SmallBodies}

PlainAlphabet == {"a", "7", QT, RB, BT, "["}

PlainTexts ==
    SeqsUpTo(PlainAlphabet, MaxPlainLen)
      \cup {<<"Sure! Here's my analysis: not JSON at all.">>,
            <<"n", "u", "l", "l">>, <<"[", "7", "]">>, <<QT, "a", QT>>,
            Fence \o JsonTag \o <<"a">> \o Fence}

\* The four scores of a result, and nothing else of it.
Scored(desirability, feasibility, viability, overallScore) ==
    JObj(<<
      <<<<"desirability">>, JObj(<< <<<<"score">>, JNum(desirability)>> >>)>>,
      <<<<"feasibility">>, JObj(<< <<<<"score">>, JNum(feasibility)>> >>)>>,
      <<<<"viability">>, JObj(<< <<<<"score">>, JNum(viability)>> >>)>>,
      <<<<"overallEvaluation">>,
        JObj(<< <<<<"overallScore">>, JNum(overallScore)>> >>)>> >>)

\* Objects a model may emit against the instructions of the prompt: scores
\* out of the range 1 to 10, an overall score that is not the mean of the
\* three, sections missing.
Anomalies ==
    {EvaluationResult(0, <<"a">>), EvaluationResult(11, <<"a">>),
     Scored(11, 0, 5, 9), Scored(2, 4, 6, 10),
     JObj(<< <<<<"improvements">>, JArr(<<>>)>> >>)}

AnomalyTexts ==
    {JSONstringify(o) : o \in Anomalies}
      \cup {Fenced(JsonTag, <<NL>>, JSONstringify(o), <<NL>>) : o \in Anomalies}

\* Two objects with prose between them.
TwoObjectTexts ==
    {<<LB, RB, "a", LB, RB>>,
     JSONstringify(JObj(<< <<<<"a">>, JNum(7)>> >>)) \o <<" and ">>
       \o JSONstringify(JObj(<<>>))}

Contents ==
    RoundTripTexts \cup FencedTexts \cup UnfencedTexts \cup PlainTexts
      \cup AnomalyTexts \cup TwoObjectTexts

\* What response.json() gives for a 2xx answer.
RichData ==
    {Null, JObj(<<>>), JObj(<< <<<<"choices">>, JArr(<<>>)>> >>),
     Completion(Undefined), Completion(Null), Completion(JNum(5))}
      \cup {Completion(JStr(c)) : c \in Contents}

FewData ==
    {Null, Completion(JStr(<<"a">>)),
     Completion(JStr(Fenced(JsonTag, <<NL>>, <<LB, RB>>, <<NL>>)))}

(***************************************************************************)
(* State                                                                   *)
(***************************************************************************)
VARIABLES
    env,        \* process.env
    pc,         \* where the handling of each request stands
    request,    \* req.body
    calls,      \* the arguments evaluateInnovation was called with
    prompt,     \* the prompt built
    outbox,     \* the requests handed to fetch
    response,   \* the status line of the provider's answer
    data,       \* what response.json() gave
    content,    \* the completion text
    parsed,     \* the texts handed to JSON.parse
    thrown,     \* the error the catch block of evaluateInnovation caught
    promise,    \* how the promise of evaluateInnovation settled
    http,       \* the HTTP responses sent for the request
    evaluation, \* App: the state evaluation
    loading,    \* App: the state loading
    error,      \* App: the state error
    wire,       \* the bodies of the POSTs the browser sent
    cpc,        \* where handleEvaluate stands for each of its calls
    shown       \* what App rendered as each call of handleEvaluate ended

\* The state of the browser.
client == <<evaluation, loading, error, wire, cpc, shown>>

vars == <<env, pc, request, calls, prompt, outbox, response, data, content,
          parsed, thrown, promise, http, client>>

None == [r \in Requests |-> <<>>]

Init ==
    /\ env \in Environments
    /\ pc = [r \in Requests |-> "idle"]
    /\ request = None
    /\ calls = None
    /\ prompt = None
    /\ outbox = None
    /\ response = None
    /\ data = None
    /\ content = None
    /\ parsed = None
    /\ thrown = None
    /\ promise = None
    /\ http = None
    /\ evaluation = Null
    /\ loading = FALSE
    /\ error = Null
    /\ wire = None
    /\ cpc = [r \in Requests |-> "none"]
    /\ shown = None

\* A POST /api/evaluate arrives and the handler runs to its first await: the
\* input is refused, or the handler throws, or evaluateInnovation is called
\* and runs to its own first await.
PostEvaluate(r, Bodies) ==
    /\ pc[r] = "idle"
    /\ \E body \in Bodies :
        LET ideaDescription == Get(body, <<"ideaDescription">>)
        IN  /\ request' = [request EXCEPT ![r] = <<body>>]
            /\ IF Validate(ideaDescription) = "throw"
               THEN /\ http' = [http EXCEPT
                                  ![r] = Append(@, ServerError(TrimNotAFunction))]
                    /\ pc' = [pc EXCEPT ![r] = "responded"]
                    /\ UNCHANGED <<calls, prompt, outbox, thrown, promise>>
               ELSE IF Validate(ideaDescription) = "refuse"
               THEN /\ http' = [http EXCEPT ![r] = Append(@, BadRequest)]
                    /\ pc' = [pc EXCEPT ![r] = "responded"]
                    /\ UNCHANGED <<calls, prompt, outbox, thrown, promise>>
               ELSE LET go == EvaluateStart(env, ideaDescription)
                    IN  /\ calls' = [calls EXCEPT
                                       ![r] = Append(@, ideaDescription)]
                        /\ prompt' = [prompt EXCEPT ![r] = go.prompt]
                        /\ outbox' = [outbox EXCEPT ![r] = @ \o go.fetch]
                        /\ thrown' = [thrown EXCEPT ![r] = go.thrown]
                        /\ promise' = [promise EXCEPT ![r] = go.promise]
                        /\ pc' = [pc EXCEPT
                                    ![r] = IF go.promise = <<>>
                                           THEN "fetching" ELSE "settled"]
                        /\ UNCHANGED http
    /\ UNCHANGED <<env, response, data, content, parsed>>
    /\ UNCHANGED client

NetworkError == JError("TypeError", <<"fetch failed">>)

\* The fetch settles: it rejects, or it resolves with the status line of the
\* answer, and evaluateInnovation goes on to read the body.
FetchSettles(r) ==
    /\ pc[r] = "fetching"
    /\ \/ /\ thrown' = [thrown EXCEPT ![r] = <<NetworkError>>]
          /\ promise' = [promise EXCEPT ![r] = <<Catch(NetworkError)>>]
          /\ pc' = [pc EXCEPT ![r] = "settled"]
          /\ UNCHANGED response
       \/ \E status \in Statuses :
          /\ response' = [response EXCEPT ![r] = <<status>>]
          /\ pc' = [pc EXCEPT ![r] = "reading"]
          /\ UNCHANGED <<thrown, promise>>
    /\ UNCHANGED <<env, request, calls, prompt, outbox, data, content, parsed,
                   http>>
    /\ UNCHANGED client


BodyError == JError("TypeError", <<"terminated">>)

\* The body of the answer has been read, or reading it failed.  Of an answer
\* that is not ok the text goes into the error thrown; of an ok answer
\* response.json() gives the data, or throws on a body that is no JSON, and
\* evaluateInnovation runs to its end.
BodySettles(r, Datas) ==
    /\ pc[r] = "reading"
    /\ \/ /\ thrown' = [thrown EXCEPT ![r] = <<BodyError>>]
          /\ promise' = [promise EXCEPT ![r] = <<Catch(BodyError)>>]
          /\ UNCHANGED <<data, content, parsed>>
       \/ /\ ~Ok(response[r][1])
          /\ \E errorText \in ErrorBodies :
               LET routerError == RouterError(response[r][1], errorText)
               IN  /\ thrown' = [thrown EXCEPT ![r] = <<routerError>>]
                   /\ promise' = [promise EXCEPT
                                     ![r] = <<Catch(routerError)>>]
          /\ UNCHANGED <<data, content, parsed>>
       \/ /\ Ok(response[r][1])
          /\ thrown' = [thrown EXCEPT ![r] = <<SyntaxError>>]
          /\ promise' = [promise EXCEPT ![r] = <<Catch(SyntaxError)>>]
          /\ UNCHANGED <<data, content, parsed>>
       \/ /\ Ok(response[r][1])
          /\ \E d \in Datas :
               LET end == EvaluateData(d)
               IN  /\ data' = [data EXCEPT ![r] = <<d>>]
                   /\ content' = [content EXCEPT ![r] = end.content]
                   /\ parsed' = [parsed EXCEPT ![r] = end.parsed]
                   /\ thrown' = [thrown EXCEPT ![r] = end.thrown]
                   /\ promise' = [promise EXCEPT ![r] = end.promise]
    /\ pc' = [pc EXCEPT ![r] = "settled"]
    /\ UNCHANGED <<env, request, calls, prompt, outbox, response, http>>
    /\ UNCHANGED client

TimedOut == JError("Error", <<"Evaluation timed out">>)

\* A handler with a timeout of its own: it answers 500 while the call is
\* still pending.
HandlerResumeOrTimeout(r) ==
    /\ pc[r] \in {"fetching", "reading", "settled"}
    /\ http' = [http EXCEPT
                  ![r] = Append(@, IF pc[r] = "settled"
                                   THEN Reply(promise[r][1])
                                   ELSE ServerError(TimedOut))]
    /\ pc' = [pc EXCEPT ![r] = "responded"]
    /\ UNCHANGED <<env, request, calls, prompt, outbox, response, data,
                   content, parsed, thrown, promise>>
    /\ UNCHANGED client

\* A handler that keeps the evaluation in a variable of the module: it
\* answers with what any call assigned to it.
HandlerResumeShared(r) ==
    /\ pc[r] = "settled"
    /\ \E q \in DOMAIN promise :
         /\ promise[q] # <<>>
         /\ http' = [http EXCEPT ![r] = Append(@, Reply(promise[q][1]))]
    /\ pc' = [pc EXCEPT ![r] = "responded"]
    /\ UNCHANGED <<env, request, calls, prompt, outbox, response, data,
                   content, parsed, thrown, promise>>
    /\ UNCHANGED client

\* The handler resumes with the settled promise and answers the request.
HandlerResume(r) ==
    /\ pc[r] = "settled"
    /\ http' = [http EXCEPT ![r] = Append(@, Reply(promise[r][1]))]
    /\ pc' = [pc EXCEPT ![r] = "responded"]
    /\ UNCHANGED <<env, request, calls, prompt, outbox, response, data,
                   content, parsed, thrown, promise>>
    /\ UNCHANGED client

Next ==
    \E r \in Requests :
        \/ PostEvaluate(r, FewBodies)
        \/ FetchSettles(r)
        \/ BodySettles(r, RichData)
        \/ HandlerResume(r)

\* Every completion the model may emit, for a few requests.
Spec == Init /\ [][Next]_vars

NextPrompt ==
    \E r \in Requests :
        \/ PostEvaluate(r, RichBodies)
        \/ FetchSettles(r)
        \/ BodySettles(r, FewData)
        \/ HandlerResume(r)

\* Every request body, for a few completions.
SpecPrompt == Init /\ [][NextPrompt]_vars

\* The same steps, the handler resuming whenever the promise it awaits has
\* settled: the continuation of an await is a job the event loop runs.  Of
\* the provider nothing is assumed: its answer, or the body of it, may never
\* come.
SpecLive == Spec /\ \A r \in Requests : WF_vars(HandlerResume(r))

\* Two requests in flight at once.
Concurrent == {"r1", "r2"}

Bikes == <<"A cargo bike that folds.">>

ConcurrentBodies == {Body(JStr(Umbrellas)), Body(JStr(Bikes))}

InitConcurrent ==
    /\ env \in Environments
    /\ pc = [r \in Concurrent |-> "idle"]
    /\ request = [r \in Concurrent |-> <<>>]
    /\ calls = [r \in Concurrent |-> <<>>]
    /\ prompt = [r \in Concurrent |-> <<>>]
    /\ outbox = [r \in Concurrent |-> <<>>]
    /\ response = [r \in Concurrent |-> <<>>]
    /\ data = [r \in Concurrent |-> <<>>]
    /\ content = [r \in Concurrent |-> <<>>]
    /\ parsed = [r \in Concurrent |-> <<>>]
    /\ thrown = [r \in Concurrent |-> <<>>]
    /\ promise = [r \in Concurrent |-> <<>>]
    /\ http = [r \in Concurrent |-> <<>>]
    /\ evaluation = Null
    /\ loading = FALSE
    /\ error = Null
    /\ wire = [r \in Concurrent |-> <<>>]
    /\ cpc = [r \in Concurrent |-> "none"]
    /\ shown = [r \in Concurrent |-> <<>>]

NextConcurrent ==
    \E r \in Concurrent :
        \/ PostEvaluate(r, ConcurrentBodies)
        \/ FetchSettles(r)
        \/ BodySettles(r, FewData)
        \/ HandlerResume(r)

\* The steps of two requests in any order the event loop may run them.
SpecConcurrent == InitConcurrent /\ [][NextConcurrent]_vars

(***************************************************************************)
(* The browser and the server together                                     *)
(***************************************************************************)
\* A text too long for express.json(), whose limit is 100 kB.
Essay == <<"a description of more than 100 kB">>

TooLarge(body) == Contains(body, Essay)

\* What the user has typed as the form is submitted.
Typed == {Umbrellas, <<SP>> \o Bikes \o <<NL>>, <<SP>>, <<>>, Essay}

\* What the provider answers: a result, null, an object with a field
\* error, a text that is no JSON, and no completion at all.
ClientData ==
    {Completion(JStr(Fenced(JsonTag, <<NL>>,
                            JSONstringify(EvaluationResult(10, <<"a">>)),
                            <<NL>>))),
     Completion(JStr(<<"n", "u", "l", "l">>)),
     Completion(JStr(JSONstringify(
         JObj(<< <<<<"error">>, JStr(<<"none found">>)>> >>)))),
     Completion(JStr(<<"a">>)),
     Null}

server == <<env, pc, request, calls, prompt, outbox, response, data, content,
            parsed, thrown, promise, http>>

\* The catch and the finally block of handleEvaluate.
CatchAndFinally(r, err) ==
    /\ error' = ErrorText(err)
    /\ loading' = FALSE
    /\ cpc' = [cpc EXCEPT ![r] = "done"]
    /\ shown' = [shown EXCEPT ![r] = <<View(evaluation, error')>>]
    /\ UNCHANGED <<evaluation, wire>>

\* The user submits the form: handleSubmit calls handleEvaluate, which runs
\* to its await of fetch.
Submit(r) ==
    /\ cpc[r] = "none"
    /\ View(evaluation, error).screen = "form"
    /\ \E ideaDescription \in Typed :
         /\ CanSubmit(loading, ideaDescription)
         /\ wire' = [wire EXCEPT ![r] = <<PostBody(ideaDescription)>>]
    /\ loading' = TRUE
    /\ error' = Null
    /\ evaluation' = Null
    /\ cpc' = [cpc EXCEPT ![r] = "fetching"]
    /\ UNCHANGED <<shown, server>>

\* express.json() refuses a body over its limit; the handler does not run.
JsonRefuses(r) ==
    /\ pc[r] = "idle"
    /\ wire[r] # <<>>
    /\ TooLarge(wire[r][1])
    /\ http' = [http EXCEPT
                  ![r] = Append(@, [status |-> 413,
                                    body |-> <<"PayloadTooLargeError">>])]
    /\ pc' = [pc EXCEPT ![r] = "responded"]
    /\ UNCHANGED <<env, request, calls, prompt, outbox, response, data,
                   content, parsed, thrown, promise, client>>

\* req.body for the POSTs that express.json() lets through.
Received(r) ==
    {JSONparse(wire[r][k]) :
        k \in {i \in 1..Len(wire[r]) : ~TooLarge(wire[r][i])}}

\* The fetch of handleEvaluate settles: it rejects, or it resolves with the
\* status of the answer, which is thrown as an error when it is not ok.
ResponseArrives(r) ==
    /\ cpc[r] = "fetching"
    /\ \/ CatchAndFinally(r, FailedToFetch)
       \/ /\ http[r] # <<>>
          /\ IF Ok(http[r][1].status)
             THEN /\ cpc' = [cpc EXCEPT ![r] = "reading"]
                  /\ UNCHANGED <<evaluation, loading, error, wire, shown>>
             ELSE CatchAndFinally(r, HttpError(http[r][1].status))
    /\ UNCHANGED server

\* response.json() settles: reading the body failed, or the body is no
\* JSON, or setEvaluation(data) and the finally block run.
JsonArrives(r) ==
    /\ cpc[r] = "reading"
    /\ \/ CatchAndFinally(r, FailedToFetch)
       \/ LET parsedBody == JSONparse(http[r][1].body)
          IN  IF IsThrown(parsedBody)
              THEN CatchAndFinally(r, parsedBody)
              ELSE /\ evaluation' = parsedBody
                   /\ loading' = FALSE
                   /\ cpc' = [cpc EXCEPT ![r] = "done"]
                   /\ shown' = [shown EXCEPT
                                  ![r] = <<View(evaluation', error)>>]
                   /\ UNCHANGED <<error, wire>>
    /\ UNCHANGED server

\* handleReset, from the button of EvaluationResults.
Reset ==
    /\ View(evaluation, error).screen # "form"
    /\ evaluation' = Null
    /\ error' = Null
    /\ UNCHANGED <<loading, wire, cpc, shown, server>>

NextClient ==
    \/ \E r \in Concurrent :
          \/ Submit(r)
          \/ JsonRefuses(r)
          \/ PostEvaluate(r, Received(r))
          \/ FetchSettles(r)
          \/ BodySettles(r, ClientData)
          \/ HandlerResume(r)
          \/ ResponseArrives(r)
          \/ JsonArrives(r)
    \/ Reset

\* One browser, which submits twice at most, and the server.
SpecClient == InitConcurrent /\ [][NextClient]_vars

(***************************************************************************)
(* Properties                                                              *)
(***************************************************************************)
Settled(r) == promise[r] # <<>>

Value(r) == promise[r][1].value

Keys(x) == {x.v[k][1] : k \in 1..Len(x.v)}

\* An object {error, message, fallback: true} with both texts strings.
IsEvaluationFailure(x) ==
    /\ x.t = "obj"
    /\ Keys(x) = {<<"error">>, <<"message">>, <<"fallback">>}
    /\ Get(x, <<"error">>).t = "str"
    /\ Get(x, <<"message">>).t = "str"
    /\ Get(x, <<"fallback">>) = JBool(TRUE)

KeyAbsent == ~Truthy(env.HUGGINGFACE_API_KEY)

NotOk(r) == response[r] # <<>> /\ ~(response[r][1] \in 200..299)

\* The ways an evaluation fails: no key, no answer to the fetch, an answer
\* that is not 2xx, a body without choices, a text that is no JSON.
Failed(r) ==
    \/ calls[r] # <<>> /\ KeyAbsent
    \/ Settled(r) /\ outbox[r] # <<>> /\ response[r] = <<>>
    \/ Settled(r) /\ NotOk(r)
    \/ data[r] # <<>> /\ data[r][1].t = "obj"
         /\ ~HasKey(data[r][1].v, <<"choices">>)
    \/ parsed[r] # <<>> /\ IsThrown(JSONparse(parsed[r][1]))

\* C1: the promise of evaluateInnovation never rejects, and whenever the
\* evaluation failed (no key, network failure, non-2xx status, body without
\* choices, unparseable content) it resolves to {error, message, fallback:
\* true} whose message is the message of the error that was thrown.
C1_NeverRejects ==
    \A r \in Requests :
        Settled(r) =>
            /\ promise[r][1].settled = "resolved"
            /\ Failed(r) =>
                 /\ thrown[r] # <<>>
                 /\ IsEvaluationFailure(Value(r))
                 /\ Get(Value(r), <<"message">>)
                      = JStr(ErrorMessage(thrown[r][1]))

C1_Witness ==
    \E r \in Requests :
        /\ Settled(r)
        /\ parsed[r] # <<>>
        /\ IsThrown(JSONparse(parsed[r][1]))
        /\ IsEvaluationFailure(Value(r))

LastStatus(r) == http[r][Len(http[r])].status

\* C2: whenever evaluateInnovation gave an EvaluationFailure to the handler,
\* the handler answers with a 5xx status.
C2_FailureIsServerError ==
    \A r \in Requests :
        (pc[r] = "responded" /\ Settled(r) /\ IsEvaluationFailure(Value(r)))
            => LastStatus(r) \in 500..599

IsSpace(c) == c \in {SP, NL, "\t", "\r", NBSP}

\* ideaDescription missing, empty or whitespace-only
MissingOrBlank(body) ==
    LET ideaDescription == Get(body, <<"ideaDescription">>)
    IN  \/ ideaDescription.t = "undefined"
        \/ /\ ideaDescription.t = "str"
           /\ \A k \in 1..Len(ideaDescription.v) : IsSpace(ideaDescription.v[k])

\* C3: a request whose ideaDescription is missing, empty or whitespace-only
\* is answered 400, and evaluateInnovation is not called for it: no prompt
\* is built and no request goes to the provider.
C3_BlankRefused ==
    \A r \in Requests :
        (request[r] # <<>> /\ MissingOrBlank(request[r][1])) =>
            /\ Len(http[r]) = 1
            /\ http[r][1].status = 400
            /\ calls[r] = <<>>
            /\ prompt[r] = <<>>
            /\ outbox[r] = <<>>

C3_Witness ==
    \E r \in Requests :
        /\ request[r] # <<>>
        /\ Get(request[r][1], <<"ideaDescription">>) = JStr(<<SP>>)
        /\ http[r] # <<>>
        /\ http[r][1].status = 400

\* C4: for every non-empty input the user message is the template with the
\* input, character for character, in the place of the placeholder, so that
\* the placeholder occurs in it only where the input holds it.
C4_PromptVerbatim ==
    \A r \in Requests :
        prompt[r] # <<>> =>
            prompt[r][1] = PromptHead \o calls[r][1].v \o PromptTail

HasNoFence(s) == ~Contains(s, Fence)

RECURSIVE SkipSpace(_, _)
SkipSpace(s, i) ==
    IF i <= Len(s) /\ IsSpace(s[i]) THEN SkipSpace(s, i + 1) ELSE i

RECURSIVE SkipSpaceBack(_, _)
SkipSpaceBack(s, i) ==
    IF i >= 1 /\ IsSpace(s[i]) THEN SkipSpaceBack(s, i - 1) ELSE i

\* The first and last position of what the block between the fences at i
\* and j holds, a the position after the opening fence and its tag.
Held(s, a, j) == <<SkipSpace(s, a), SkipSpaceBack(s, j - 1)>>

\* s is prose without a fence, the fence at i with or without the tag json,
\* a block that holds a JSON object and nothing else, the fence at j, and
\* prose without a fence.
OneFencedObject(s, i, a, j) ==
    /\ OccursAt(s, Fence, i)
    /\ a = i + 3 \/ (a = i + 7 /\ OccursAt(s, JsonTag, i + 3))
    /\ OccursAt(s, Fence, j)
    /\ j > a
    /\ HasNoFence(SubSeq(s, 1, i - 1))
    /\ HasNoFence(SubSeq(s, j + 3, Len(s)))
    /\ LET h == Held(s, a, j)
       IN  /\ h[1] < h[2]
           /\ s[h[1]] = LB
           /\ s[h[2]] = RB
           /\ JSONparse(SubSeq(s, h[1], h[2])).t = "obj"

Text(r) == content[r][1].v

HasText(r) == content[r] # <<>> /\ content[r][1].t = "str"

\* C5: when the completion holds one fenced block (tagged json or not) with
\* a valid JSON object in it, the result is that object parsed, whatever
\* prose stands before and after the block, braces in it included.
C5_FencedObjectReturned ==
    \A r \in Requests :
        (Settled(r) /\ HasText(r)) =>
            \A i \in Occurrences(Text(r), Fence),
               j \in Occurrences(Text(r), Fence), tag \in {3, 7} :
                OneFencedObject(Text(r), i, i + tag, j) =>
                    LET h == Held(Text(r), i + tag, j)
                    IN  promise[r][1]
                          = Resolved(JSONparse(SubSeq(Text(r), h[1], h[2])))

C5_Witness ==
    \E r \in Requests :
        /\ Settled(r)
        /\ HasText(r)
        /\ Text(r) = <<LB>> \o Fenced(JsonTag, <<NL>>,
                                     <<LB, QT, "a", QT, COLON, "7", RB>>, <<NL>>)
                       \o <<RB>>
        /\ Value(r) = JObj(<< <<<<"a">>, JNum(7)>> >>)

\* C6: when the completion text holds no opening brace, the result is an
\* EvaluationFailure, never a value parsed from the text.
C6_NoBraceFails ==
    \A r \in Requests :
        (Settled(r) /\ HasText(r) /\ ~Contains(Text(r), <<LB>>)) =>
            IsEvaluationFailure(Value(r))

MessageOf(r) == Get(Value(r), <<"message">>).v

\* C7 as claimed: after an answer that is not 2xx the result is an
\* EvaluationFailure whose message holds the status code, and nothing went
\* to the parser.
C7_StatusAlwaysInMessage ==
    \A r \in Requests :
        (Settled(r) /\ NotOk(r)) =>
            /\ IsEvaluationFailure(Value(r))
            /\ Contains(MessageOf(r), <<ToString(response[r][1])>>)
            /\ parsed[r] = <<>>

\* C7, amended: after an answer that is not 2xx the result is an
\* EvaluationFailure and nothing of the answer went to the extractor or the
\* parser; its message holds the status code when the body of the answer
\* was read, and is the message of the read error when reading it failed.
C7_StatusInMessage ==
    \A r \in Requests :
        (Settled(r) /\ NotOk(r)) =>
            /\ IsEvaluationFailure(Value(r))
            /\ content[r] = <<>>
            /\ parsed[r] = <<>>
            /\ \/ Contains(MessageOf(r), <<ToString(response[r][1])>>)
               \/ /\ thrown[r] = <<BodyError>>
                  /\ MessageOf(r) = ErrorMessage(BodyError)

C7_Witness ==
    \E r \in Requests :
        /\ Settled(r)
        /\ response[r] = <<503>>
        /\ IsEvaluationFailure(Value(r))
        /\ Contains(MessageOf(r), <<"503">>)

\* C8: when the API key is absent as evaluateInnovation is called, nothing
\* is handed to fetch for that call and the call gives an EvaluationFailure.
C8_NoKeyNoFetch ==
    \A r \in Requests :
        (calls[r] # <<>> /\ KeyAbsent) =>
            /\ outbox[r] = <<>>
            /\ Settled(r)
            /\ IsEvaluationFailure(Value(r))

C8_Witness ==
    \E r \in Requests :
        /\ calls[r] # <<>>
        /\ env.HUGGINGFACE_API_KEY = Undefined
        /\ pc[r] = "responded"
        /\ outbox[r] = <<>>

\* C9: a request that reaches evaluateInnovation with the key configured
\* hands exactly one request to fetch, and no failure of the transport or of
\* the parse is followed by a second one.
C9_OneOutboundCall ==
    \A r \in Requests :
        (calls[r] # <<>> /\ ~KeyAbsent) => Len(outbox[r]) = 1

C9_Witness ==
    \E r \in Requests :
        /\ pc[r] = "responded"
        /\ thrown[r] # <<>>
        /\ NotOk(r)
        /\ Len(outbox[r]) = 1

\* C10: a valid EvaluationResult written as JSON, wrapped in a fence tagged
\* json and given to the extractor comes back equal to itself, braces and
\* backticks in its texts included.
C10_RoundTrip ==
    \A r \in Requests :
        (Settled(r) /\ HasText(r)) =>
            \A pair \in RoundTrips :
                Text(r) = pair[1] => promise[r][1] = Resolved(pair[2])

C10_Witness ==
    \E r \in Requests :
        /\ Settled(r)
        /\ HasText(r)
        /\ Text(r) = Fenced(JsonTag, <<NL>>,
                            JSONstringify(EvaluationResult(10, <<RB, BT, BT, BT>>)),
                            <<NL>>)
        /\ Value(r) = EvaluationResult(10, <<RB, BT, BT, BT>>)

NoBrace(s) == \A k \in 1..Len(s) : s[k] \notin {LB, RB}

\* s is prose without brace or fence, a JSON object from p to q that holds
\* no fence, and prose without brace or fence.
OneBareObject(s, p, q) ==
    /\ p < q
    /\ s[p] = LB
    /\ s[q] = RB
    /\ HasNoFence(s)
    /\ NoBrace(SubSeq(s, 1, p - 1))
    /\ NoBrace(SubSeq(s, q + 1, Len(s)))
    /\ JSONparse(SubSeq(s, p, q)).t = "obj"

\* C11: when the completion holds no fence and one span in braces that is a
\* JSON object, with prose free of braces before and after it, exactly that
\* span goes to the parser and the result is the object parsed.
C11_BareObjectReturned ==
    \A r \in Requests :
        (Settled(r) /\ HasText(r)) =>
            \A p \in Occurrences(Text(r), <<LB>>),
               q \in Occurrences(Text(r), <<RB>>) :
                OneBareObject(Text(r), p, q) =>
                    /\ parsed[r] = <<SubSeq(Text(r), p, q)>>
                    /\ promise[r][1]
                         = Resolved(JSONparse(SubSeq(Text(r), p, q)))

C11_Witness ==
    \E r \in Requests :
        /\ Settled(r)
        /\ HasText(r)
        /\ Text(r) = <<"a">> \o <<LB, QT, "a", QT, COLON, QT, RB, QT, RB>>
                       \o <<"a">>
        /\ parsed[r] = << <<LB, QT, "a", QT, COLON, QT, RB, QT, RB>> >>
        /\ Value(r) = JObj(<< <<<<"a">>, JStr(<<RB>>)>> >>)

\* The extraction succeeded: a text went to the parser and the parser gave
\* a value.
Extracted(r) ==
    Settled(r) /\ parsed[r] # <<>> /\ ~IsThrown(JSONparse(parsed[r][1]))

\* C12: when the extraction succeeded, the result of evaluateInnovation is
\* the very value the parser gave for the text the model emitted, and the
\* handler sends it with status 200 as a body that parses back to it: no
\* field is added, removed or altered, and scores out of range, sections
\* missing and an overall score that is not the mean go through unchanged.
C12_PassedUnchanged ==
    \A r \in Requests :
        Extracted(r) =>
            /\ Value(r) = JSONparse(parsed[r][1])
            /\ \A o \in Anomalies :
                 Text(r) \in {JSONstringify(o),
                              Fenced(JsonTag, <<NL>>, JSONstringify(o), <<NL>>)}
                     => Value(r) = o
            /\ pc[r] = "responded" =>
                 /\ Len(http[r]) = 1
                 /\ http[r][1].status = 200
                 /\ JSONparse(http[r][1].body) = Value(r)

C12_Witness ==
    \E r \in Requests :
        /\ Extracted(r)
        /\ pc[r] = "responded"
        /\ Text(r) = JSONstringify(Scored(11, 0, 5, 9))
        /\ JSONparse(http[r][1].body) = Scored(11, 0, 5, 9)

\* What is kept for request r.
Of(r) ==
    <<pc[r], request[r], calls[r], prompt[r], outbox[r], response[r], data[r],
      content[r], parsed[r], thrown[r], promise[r], http[r]>>

\* What request r holds follows from its own body and from the answer of
\* the provider to its own call.
OwnOnly(r) ==
    LET ideaDescription == Get(request[r][1], <<"ideaDescription">>)
        go == EvaluateStart(env, ideaDescription)
    IN  calls[r] # <<>> =>
            /\ calls[r] = <<ideaDescription>>
            /\ prompt[r] = go.prompt
            /\ outbox[r] = go.fetch
            /\ KeyAbsent => promise[r] = go.promise
            /\ (Settled(r) /\ outbox[r] # <<>> /\ response[r] = <<>>) =>
                   promise[r] = <<Catch(NetworkError)>>
            /\ (Settled(r) /\ NotOk(r)) =>
                   \E caught \in {BodyError}
                                  \cup {RouterError(response[r][1], errorText) :
                                          errorText \in ErrorBodies} :
                       promise[r] = <<Catch(caught)>>
            /\ data[r] # <<>> =>
                   /\ content[r] = EvaluateData(data[r][1]).content
                   /\ parsed[r] = EvaluateData(data[r][1]).parsed
                   /\ promise[r] = EvaluateData(data[r][1]).promise
            /\ pc[r] = "responded" => http[r] = <<Reply(promise[r][1])>>

\* C13: however the steps of two requests interleave, what each request
\* holds and is answered follows from its own ideaDescription and its own
\* provider answer, and a step of one request changes nothing that is kept
\* for the other.
C13_Isolated ==
    /\ [](\A r \in DOMAIN pc : OwnOnly(r))
    /\ [][\A r \in DOMAIN pc :
            Of(r)' # Of(r) => \A q \in DOMAIN pc \ {r} : Of(q)' = Of(q)]_vars

C13_Witness ==
    /\ DOMAIN pc = Concurrent
    /\ pc["r1"] = "responded"
    /\ pc["r2"] = "responded"
    /\ data["r1"] # <<>>
    /\ NotOk("r2")
    /\ request["r1"] # request["r2"]
    /\ http["r1"][1].status = 200
    /\ http["r1"] # http["r2"]

\* The spans <<i, p, q>> of s that the fenced pattern can match: a fence at
\* i, with or without the tag json, then only white space up to { at p, and
\* } at q with only white space up to a fence.
FencedSpans(s) ==
    {span \in Occurrences(s, Fence) \X Occurrences(s, <<LB>>)
                \X Occurrences(s, <<RB>>) :
        LET i == span[1]
            p == span[2]
            q == span[3]
        IN  /\ \/ p = SkipSpace(s, i + 3)
               \/ OccursAt(s, JsonTag, i + 3) /\ p = SkipSpace(s, i + 7)
            /\ p < q
            /\ OccursAt(s, Fence, SkipSpace(s, q + 1))}

\* The span of the leftmost match, as long as the match can be.
FirstFencedSpan(s) ==
    CHOOSE span \in FencedSpans(s) :
        \A other \in FencedSpans(s) :
            /\ span[1] <= other[1]
            /\ other[1] = span[1] => other[3] <= span[3]

\* C14: the text handed to JSON.parse is (1) when the fenced pattern
\* matches, the span it captures, whatever braces stand before the fence;
\* (2) else, when a { is followed somewhere by a }, the text from the first {
\* to the last }, two objects and the prose between them included; (3) else
\* the whole text.
C14_ThreeSteps ==
    \A r \in Requests :
        (HasText(r) /\ parsed[r] # <<>>) =>
            LET s == Text(r)
                opens == Occurrences(s, <<LB>>)
                closes == Occurrences(s, <<RB>>)
            IN  IF FencedSpans(s) # {}
                THEN parsed[r] = <<SubSeq(s, FirstFencedSpan(s)[2],
                                          FirstFencedSpan(s)[3])>>
                ELSE IF \E p \in opens, q \in closes : p < q
                THEN parsed[r] = <<SubSeq(s, Min(opens), Max(closes))>>
                ELSE parsed[r] = <<s>>

\* A brace before the fence, and the span in the fence is taken.
C14_Witness ==
    \E r \in Requests :
        /\ HasText(r)
        /\ Text(r) = <<LB>> \o Fenced(JsonTag, <<NL>>, <<LB, RB>>, <<NL>>)
        /\ parsed[r] = << <<LB, RB>> >>

\* The call to the provider is pending: the fetch, or the reading of the
\* body, has not settled.
Pending(r) == pc[r] \in {"fetching", "reading"}

\* C15: a request that went to the provider is not answered while the call
\* is pending, however long that lasts; once the call has settled, with a
\* result or an error, one HTTP response is sent and no second one follows.
C15_AnsweredAfterSettling ==
    /\ [](\A r \in Requests :
            /\ Pending(r) => http[r] = <<>>
            /\ (outbox[r] # <<>> /\ http[r] # <<>>) => Settled(r)
            /\ Len(http[r]) <= 1)
    /\ [][\A r \in Requests :
            /\ Pending(r) => http'[r] = <<>>
            /\ http[r] # <<>> => http'[r] = http[r]]_vars
    /\ \A r \in Requests :
            (outbox[r] # <<>> /\ Settled(r)) ~> (Len(http[r]) = 1)

C15_Witness ==
    \E r \in Requests :
        /\ outbox[r] # <<>>
        /\ response[r] = <<200>>
        /\ data[r] # <<>>
        /\ Settled(r)
        /\ pc[r] = "responded"
        /\ Len(http[r]) = 1

\* handleEvaluate has ended for r.
Done(r) == shown[r] # <<>>

\* The evaluation of r failed in evaluateInnovation.
CoreFailed(r) == Settled(r) /\ thrown[r] # <<>>

\* The evaluation of r succeeded: evaluateInnovation returned what it parsed.
CoreSucceeded(r) == Settled(r) /\ thrown[r] = <<>>

\* C16: what the browser shows as a request ends is an error display with
\* the message of the failure when the request failed (the fetch or the
\* body read of the browser, an HTTP status that is not ok, a failure in
\* evaluateInnovation), and the breakdown when the evaluation succeeded;
\* nothing else is shown.
C16_ShownAsItEnded ==
    \A r \in DOMAIN shown :
        Done(r) =>
            LET v == shown[r][1]
            IN  \/ /\ v.screen = "form"
                   /\ v.message = <<JStr(ErrorMessage(FailedToFetch))>>
                \/ /\ v.screen = "form"
                   /\ http[r] # <<>>
                   /\ ~Ok(http[r][1].status)
                   /\ v.message
                        = <<JStr(ErrorMessage(HttpError(http[r][1].status)))>>
                \/ /\ v.screen = "error-state"
                   /\ CoreFailed(r)
                   /\ v.message = <<JStr(ErrorMessage(thrown[r][1]))>>
                \/ /\ v.screen = "breakdown"
                   /\ CoreSucceeded(r)

\* The calls of handleEvaluate whose fetch or body read is pending.
InFlight == {r \in DOMAIN cpc : cpc[r] \in {"fetching", "reading"}}

\* C17: in the browser, whatever was submitted, answered, failed and reset:
\* loading is false when no request is in flight, evaluation and error are
\* not both set, at most one request is in flight, and no submission starts
\* while one is.
C17_OneRequestAtATime ==
    /\ [](/\ InFlight = {} => loading = FALSE
          /\ ~(evaluation # Null /\ error # Null)
          /\ Cardinality(InFlight) <= 1
          /\ loading => \A ideaDescription \in Typed :
                            ~CanSubmit(loading, ideaDescription))
    /\ [][\A r \in DOMAIN cpc :
            (cpc[r] = "none" /\ cpc'[r] # "none") => InFlight = {}]_vars

\* A second submission, made after the first was answered and reset.
C17_Witness ==
    \E r \in DOMAIN cpc, q \in DOMAIN cpc :
        /\ cpc[r] = "done"
        /\ shown[r][1].screen = "breakdown"
        /\ cpc[q] = "reading"
        /\ loading
        /\ evaluation = Null

HasErrorField(x) == x.t = "obj" /\ HasKey(x.v, <<"error">>)

\* C18: the value evaluateInnovation returns has a field error, and the
\* browser renders the error state for it, only when the call to the
\* provider, the extraction or the parse failed; what was parsed from the
\* model's text is never taken for a failure.
C18_ErrorMeansFailure ==
    \A r \in DOMAIN promise :
        /\ (Settled(r) /\ HasErrorField(Value(r))) =>
               /\ CoreFailed(r)
               /\ Get(Value(r), <<"fallback">>) = JBool(TRUE)
        /\ (Done(r) /\ shown[r][1].screen = "error-state") => CoreFailed(r)

=============================================================================
